---- MODULE Spec2Model ----
(***************************************************************************)
(* dongshanMD, src-tauri: the command-line "open with" path of the desktop *)
(* shell.  A path string is a sequence of one-character strings.  The      *)
(* model covers clean_file_path, to_absolute_path, is_supported_file,      *)
(* process_and_emit_file (with its delayed worker thread) and the setup    *)
(* closure of run_app / main.  The file system and the working directory   *)
(* are the environment: every outcome std::fs::canonicalize and            *)
(* std::env::current_dir can produce is a nondeterministic choice.         *)
(* Paths follow the Unix rules of std::path (separator "/").               *)
(***************************************************************************)
EXTENDS Naturals, Sequences, FiniteSets

\* ------------------------------------------------------------------ bounds
\* longest run of quote / blank characters put before and after a body
MaxPad == 2
\* longest argument vector (after skip(1))
MaxArgs == 2
\* granularity of the clock, in milliseconds
TickMs == 400

\* -------------------------------------------------------------- characters
dq == "\""
sq == "'"
sp == " "
Quotes == {dq, sq}
\* char::is_whitespace, restricted to the characters of the model
Whitespace == {" ", "\t", "\n", "\r"}
PadChars == {dq, sq, sp}

Uppers == <<"A","B","C","D","E","F","G","H","I","J","K","L","M",
            "N","O","P","Q","R","S","T","U","V","W","X","Y","Z">>
Lowers == <<"a","b","c","d","e","f","g","h","i","j","k","l","m",
            "n","o","p","q","r","s","t","u","v","w","x","y","z">>

\* char lowercase mapping used by str::to_lowercase
LowerChar(c) ==
    IF \E i \in 1..Len(Uppers) : Uppers[i] = c
    THEN Lowers[CHOOSE i \in 1..Len(Uppers) : Uppers[i] = c]
    ELSE c

\* str::to_lowercase
to_lowercase(s) == [i \in 1..Len(s) |-> LowerChar(s[i])]

\* str::ends_with
ends_with(s, suf) ==
    /\ Len(s) >= Len(suf)
    /\ SubSeq(s, Len(s) - Len(suf) + 1, Len(s)) = suf

RECURSIVE trim_start_matches(_, _)
trim_start_matches(s, cs) ==
    IF s # <<>> /\ Head(s) \in cs
    THEN trim_start_matches(Tail(s), cs)
    ELSE s

RECURSIVE trim_end_matches(_, _)
trim_end_matches(s, cs) ==
    IF s # <<>> /\ s[Len(s)] \in cs
    THEN trim_end_matches(SubSeq(s, 1, Len(s) - 1), cs)
    ELSE s

\* str::trim_matches(c): every leading and every trailing occurrence goes
trim_matches(s, cs) == trim_end_matches(trim_start_matches(s, cs), cs)

\* str::trim
trim(s) == trim_matches(s, Whitespace)

\* a variant that trims the blanks before the quotes
clean_file_path_TrimFirst(path) ==
    trim_matches(trim_matches(trim(path), {dq}), {sq})

\* app.rs:4  path.trim_matches('"').trim_matches('\'').trim()
clean_file_path(path) == trim(trim_matches(trim_matches(path, {dq}), {sq}))

MdSuffix == <<".", "m", "d">>
MarkdownSuffix == <<".", "m", "a", "r", "k", "d", "o", "w", "n">>
TxtSuffix == <<".", "t", "x", "t">>

\* a variant that forgets to_lowercase
is_supported_file_CaseSensitive(path) ==
    \/ ends_with(path, MdSuffix)
    \/ ends_with(path, MarkdownSuffix)
    \/ ends_with(path, TxtSuffix)

\* app.rs:75
is_supported_file(path) ==
    LET lower == to_lowercase(path)
    IN  \/ ends_with(lower, MdSuffix)
        \/ ends_with(lower, MarkdownSuffix)
        \/ ends_with(lower, TxtSuffix)

\* Path::is_absolute (Unix: the path has a root)
is_absolute(p) == p # <<>> /\ Head(p) = "/"

\* PathBuf::join / push (Unix)
join(base, p) ==
    IF is_absolute(p) THEN p
    ELSE IF base # <<>> /\ base[Len(base)] # "/" THEN base \o <<"/">> \o p
    ELSE base \o p

\* ------------------------------------------------------------- environment
\* Result<PathBuf> of canonicalize / current_dir followed by to_str():
\* "err" (Err), "nonutf8" (Ok, but to_str() is None), "ok" (Ok, Some(path))
Err == [tag |-> "err", path |-> <<>>]
NonUtf8 == [tag |-> "nonutf8", path |-> <<>>]
Ok(p) == [tag |-> "ok", path |-> p]
Unused == [tag |-> "unused", path |-> <<>>]

\* where a symbolic link may lead: a supported and an unsupported file name
SymlinkTargets == { <<"/", "t", ".", "m", "d">>, <<"/", "t", ".", "b", "i", "n">> }
\* the working directory of the process, when there is one
CwdDirs == { <<"/", "w">> }

\* what canonicalize(p) can return as a path: always absolute; p itself (or
\* p under the working directory) when no link is involved, or a link target
CanonTargets(p) ==
    SymlinkTargets \cup
    (IF is_absolute(p) THEN {p} ELSE {join(d, p) : d \in CwdDirs})

\* the empty path names no file: canonicalize("") is always Err
CanonOutcomes(p) ==
    IF p = <<>> THEN {Err}
    ELSE {Err, NonUtf8} \cup {Ok(t) : t \in CanonTargets(p)}
CwdOutcomes == {Err, NonUtf8} \cup {Ok(d) : d \in CwdDirs}

\* a variant that returns the joined path without canonicalizing it again
to_absolute_path_NoRecanon(path, c1, cwd, c2) ==
    LET cleaned == clean_file_path(path)
    IN  IF is_absolute(cleaned)
        THEN IF c1.tag = "ok" THEN c1.path ELSE cleaned
        ELSE IF c1.tag = "ok" THEN c1.path
        ELSE IF cwd.tag = "ok" THEN join(cwd.path, cleaned)
        ELSE cleaned

\* a variant that gives up instead of joining the working directory
to_absolute_path_NoJoin(path, c1, cwd, c2) ==
    LET cleaned == clean_file_path(path)
    IN  IF is_absolute(cleaned)
        THEN IF c1.tag = "ok" THEN c1.path ELSE cleaned
        ELSE IF c1.tag = "ok" THEN c1.path
        ELSE IF cwd.tag = "ok" /\ c2.tag = "ok" THEN c2.path
        ELSE cleaned

\* app.rs:9  c1 = canonicalize(&path_buf), cwd = current_dir(),
\* c2 = canonicalize(&absolute), each already passed through to_str()
to_absolute_path(path, c1, cwd, c2) ==
    LET cleaned == clean_file_path(path)
    IN  IF is_absolute(cleaned)
        THEN IF c1.tag = "ok" THEN c1.path ELSE cleaned
        ELSE IF c1.tag = "ok" THEN c1.path
        ELSE IF cwd.tag = "ok"
             THEN IF c2.tag = "ok" THEN c2.path ELSE join(cwd.path, cleaned)
             ELSE cleaned

\* the environment calls to_absolute_path really makes, the others "unused"
EnvUsed(path, c1, cwd, c2) ==
    LET cleaned == clean_file_path(path)
        rel == ~is_absolute(cleaned) /\ c1.tag # "ok"
    IN  [c1 |-> c1,
         cwd |-> IF rel THEN cwd ELSE Unused,
         c2 |-> IF rel /\ cwd.tag = "ok" THEN c2 ELSE Unused]

NoEnv == [c1 |-> Unused, cwd |-> Unused, c2 |-> Unused]

\* ------------------------------------------------------------------ inputs
RECURSIVE SeqsUpTo(_, _)
SeqsUpTo(S, n) ==
    IF n = 0 THEN {<<>>}
    ELSE LET shorter == SeqsUpTo(S, n - 1)
         IN  shorter \cup {<<c>> \o t : c \in S, t \in {u \in shorter : Len(u) = n - 1}}

Pads == SeqsUpTo(PadChars, MaxPad)

Bodies ==
    { <<"a", ".", "m", "d">>,
      <<"F", "O", "O", ".", "M", "D">>,
      <<"f", "o", "o", ".", "e", "x", "e">>,
      <<"a", ".", "t", "x", "t">>,
      <<"/", "n", ".", "M", "a", "r", "k", "D", "o", "w", "n">>,
      <<"a", ".", "m", "d", "x">>,
      <<"/", "m", "d">>,
      <<>> }

Inputs == {l \o b \o t : l \in Pads, b \in Bodies, t \in Pads}

\* ------------------------------------------------------------------- state
VARIABLES
    input,          \* the string a function is applied to
    res,            \* the function applied and what it returned
    args,           \* std::env::args().skip(1)
    mpc,            \* position of the main thread
    calls,          \* how often process_and_emit_file was called
    file_path,      \* argument of process_and_emit_file
    cleaned_path,   \* app.rs:84
    cleaned,        \* app.rs:12, inside to_absolute_path
    absolute_path,  \* app.rs:85
    env,            \* what canonicalize / current_dir answered
    wpc,            \* position of the spawned thread
    wpath,          \* the absolute_path moved into the closure
    slept,          \* ms the worker has slept, saturating at DelayMs
    sinceCall,      \* ms since process_and_emit_file was called, saturating
    emits,          \* app_handle.emit("open-file", ..) calls, in order
    log             \* messages printed by the worker and the dispatch

pureVars == <<input, res>>
procVars == <<args, mpc, calls, file_path, cleaned_path, cleaned, absolute_path, env,
              wpc, wpath, slept, sinceCall, emits, log>>
vars == <<input, res, args, mpc, calls, file_path, cleaned_path, cleaned,
          absolute_path, env, wpc, wpath, slept, sinceCall, emits, log>>

\* app.rs:92
DelayMs == 800

NoRes == [op |-> "none", text |-> <<>>, flag |-> FALSE, env |-> NoEnv]

ProcIdle ==
    /\ args = <<>>
    /\ mpc = "off"
    /\ calls = 0
    /\ file_path = <<>>
    /\ cleaned_path = <<>>
    /\ cleaned = <<>>
    /\ absolute_path = <<>>
    /\ env = NoEnv
    /\ wpc = "none"
    /\ wpath = <<>>
    /\ slept = 0
    /\ sinceCall = 0
    /\ emits = <<>>
    /\ log = <<>>

\* ---------------------------------------------- the functions, one by one
InitPure ==
    /\ input \in Inputs
    /\ res = NoRes
    /\ ProcIdle

ApplyClean ==
    /\ res.op = "none"
    /\ res' = [NoRes EXCEPT !.op = "clean", !.text = clean_file_path(input)]
    /\ UNCHANGED <<input, procVars>>

ApplyIsSupported ==
    /\ res.op = "none"
    /\ res' = [NoRes EXCEPT !.op = "supported", !.flag = is_supported_file(input)]
    /\ UNCHANGED <<input, procVars>>

ApplyToAbsolute ==
    /\ res.op = "none"
    /\ \E c1 \in CanonOutcomes(clean_file_path(input)), cwd \in CwdOutcomes :
         \E c2 \in IF cwd.tag = "ok"
                   THEN CanonOutcomes(join(cwd.path, clean_file_path(input)))
                   ELSE {Unused} :
           res' = [NoRes EXCEPT !.op = "absolute",
                                !.text = to_absolute_path(input, c1, cwd, c2),
                                !.env = EnvUsed(input, c1, cwd, c2)]
    /\ UNCHANGED <<input, procVars>>

NextPure == ApplyClean \/ ApplyIsSupported \/ ApplyToAbsolute

SpecPure == InitPure /\ [][NextPure]_vars

\* ------------------------------------------------------- clean_file_path
ATxt == <<"a", ".", "t", "x", "t">>
\* the string  "a.txt"  between two blanks, quotes included
QuotedInBlanks == <<sp, dq>> \o ATxt \o <<dq, sp>>

\* x without its first a and its last b characters
Mid(x, a, b) == SubSeq(x, a + 1, Len(x) - b)

\* the first a and the last b characters of x are its longest prefix and
\* its longest suffix made of characters of cs
LongestEnds(x, a, b, cs) ==
    /\ a + b <= Len(x)
    /\ \A k \in 1..a : x[k] \in cs
    /\ \A k \in (Len(x) - b + 1)..Len(x) : x[k] \in cs
    /\ a + b < Len(x) => x[a + 1] \notin cs /\ x[Len(x) - b] \notin cs

SupportedSuffixes == {MdSuffix, MarkdownSuffix, TxtSuffix}

\* the letter c in either case
EitherCase(c) == {c} \cup {Uppers[i] : i \in {j \in 1..Len(Lowers) : Lowers[j] = c}}

\* s ends with suf, letter case ignored
EndsWithIgnoringCase(s, suf) ==
    /\ Len(s) >= Len(suf)
    /\ \A i \in 1..Len(suf) : s[Len(s) - Len(suf) + i] \in EitherCase(suf[i])

FooMdUpper == <<"F", "O", "O", ".", "M", "D">>
FooExe == <<"f", "o", "o", ".", "e", "x", "e">>

\* C6: is_supported_file(path) is true exactly when path ends, letter case
\* ignored, with .md, .markdown or .txt; FOO.MD is supported, foo.exe is
\* not, and a quote or a blank after the suffix is not tolerated.
C6_SupportedIffSuffix ==
    res.op = "supported" =>
        /\ res.flag <=> \E suf \in SupportedSuffixes : EndsWithIgnoringCase(input, suf)
        /\ input = FooMdUpper => res.flag
        /\ input = FooExe => ~res.flag
        /\ (input # <<>> /\ input[Len(input)] \in PadChars) => ~res.flag

C6_Witness ==
    /\ res.op = "supported"
    /\ input = FooMdUpper
    /\ res.flag

\* ------------------------------------------------------ to_absolute_path
\* the call returned a path (as a PathBuf), whether or not it is valid UTF-8
Succeeded(o) == o.tag \in {"ok", "nonutf8"}
\* the returned string is the path the call returned
IsPathOf(text, o) == o.tag = "ok" /\ text = o.path
\* the returned string is base joined with p
IsJoinOf(text, o, p) == o.tag = "ok" /\ text = join(o.path, p)

\* C7 as claimed: the result follows the fallback order, each step decided
\* by the success of canonicalize and the availability of the working
\* directory alone.
C7_FallbackBySuccess ==
    res.op = "absolute" =>
        LET cl == clean_file_path(input)
            e == res.env
        IN  /\ (is_absolute(cl) /\ Succeeded(e.c1)) => IsPathOf(res.text, e.c1)
            /\ (is_absolute(cl) /\ ~Succeeded(e.c1)) => res.text = cl
            /\ (~is_absolute(cl) /\ Succeeded(e.c1)) => IsPathOf(res.text, e.c1)
            /\ (~is_absolute(cl) /\ ~Succeeded(e.c1) /\ Succeeded(e.cwd)) =>
                  IF Succeeded(e.c2) THEN IsPathOf(res.text, e.c2)
                  ELSE IsJoinOf(res.text, e.cwd, cl)
            /\ (~is_absolute(cl) /\ ~Succeeded(e.c1) /\ ~Succeeded(e.cwd)) =>
                  res.text = cl

\* C7 (amended): the same fallback order, where a step counts as successful
\* only when its path is valid UTF-8 (to_str() is Some): a canonical path
\* that is not is skipped like a failure, and a working directory that is
\* not makes the function return the cleaned input.
C7_FallbackByUtf8Success ==
    res.op = "absolute" =>
        LET cl == clean_file_path(input)
            e == res.env
        IN  /\ e.c1.tag = "ok" => res.text = e.c1.path
            /\ (is_absolute(cl) /\ e.c1.tag # "ok") => res.text = cl
            /\ (~is_absolute(cl) /\ e.c1.tag # "ok" /\ e.cwd.tag = "ok") =>
                  /\ e.c2.tag = "ok" => res.text = e.c2.path
                  /\ e.c2.tag # "ok" => res.text = join(e.cwd.path, cl)
            /\ (~is_absolute(cl) /\ e.c1.tag # "ok" /\ e.cwd.tag # "ok") =>
                  res.text = cl

\* a relative path that does not exist, resolved against the working
\* directory and then canonicalized through a link
C7_Witness ==
    /\ res.op = "absolute"
    /\ ~is_absolute(clean_file_path(input))
    /\ res.env.c1.tag = "err"
    /\ res.env.cwd.tag = "ok"
    /\ res.env.c2.tag = "ok"
    /\ res.text = res.env.c2.path
    /\ res.text # join(res.env.cwd.path, clean_file_path(input))

\* ------------------------------------------------------------ the process
ArgLeads == { <<>>, <<sp, sq>>, <<sq, sp>> }
ArgTrails == { <<>>, <<sq>> }
AMd == <<"a", ".", "m", "d">>
BTxt == <<"/", "b", ".", "t", "x", "t">>
CExe == <<"c", ".", "e", "x", "e">>
ArgBodies == {AMd, BTxt, CExe}
ArgInputs == {l \o b : l \in ArgLeads, b \in ArgBodies}
ArgVectors == UNION {[1..n -> ArgInputs] : n \in 0..MaxArgs}
DispatchInputs == {l \o b \o t : l \in ArgLeads, b \in ArgBodies, t \in ArgTrails}

Min(a, b) == IF a <= b THEN a ELSE b

\* lib.rs:25  args.iter().map(clean_file_path).filter(is_supported_file)
file_args(argv) ==
    SelectSeq([i \in 1..Len(argv) |-> clean_file_path(argv[i])], is_supported_file)

\* a variant that takes the last supported argument
first_file_Last(argv) == file_args(argv)[Len(file_args(argv))]

\* lib.rs:38  file_args[0].clone()
first_file(argv) == file_args(argv)[1]

\* lib.rs:15  the setup closure, up to its call of process_and_emit_file
Setup ==
    /\ mpc = "setup"
    /\ IF file_args(args) # <<>>
       THEN /\ file_path' = first_file(args)
            /\ mpc' = "dispatch"
            /\ log' = log
       ELSE /\ file_path' = file_path
            /\ mpc' = "done"
            /\ log' = Append(log, "no supported file")
    /\ UNCHANGED <<input, res, args, calls, cleaned_path, cleaned, absolute_path,
                   env, wpc, wpath, slept, sinceCall, emits>>

\* a variant that spawns the worker whatever the path is
ShouldEmit_Always(raw, abs) == TRUE

\* app.rs:88  the test that guards the spawn
ShouldEmit(raw, abs) == is_supported_file(abs)

\* app.rs:83  process_and_emit_file, to its return; the closure it spawns
\* takes absolute_path by move
Dispatch ==
    /\ mpc = "dispatch"
    /\ calls' = calls + 1
    /\ cleaned_path' = clean_file_path(file_path)
    /\ cleaned' = clean_file_path(cleaned_path')
    /\ \E c1 \in CanonOutcomes(cleaned'), cwd \in CwdOutcomes :
         \E c2 \in IF cwd.tag = "ok"
                   THEN CanonOutcomes(join(cwd.path, cleaned'))
                   ELSE {Unused} :
           /\ absolute_path' = to_absolute_path(cleaned_path', c1, cwd, c2)
           /\ env' = EnvUsed(cleaned_path', c1, cwd, c2)
    /\ IF ShouldEmit(file_path, absolute_path')
       THEN /\ wpc' = "spawned"
            /\ wpath' = absolute_path'
            /\ log' = Append(log, "sending")
       ELSE /\ wpc' = wpc
            /\ wpath' = wpath
            /\ log' = Append(log, "unsupported")
    /\ mpc' = "returned"
    /\ UNCHANGED <<input, res, args, file_path, slept, sinceCall, emits>>

\* a variant in which setup waits for the worker before it returns
SetupMayReturn_Joins == mpc = "returned" /\ wpc \in {"none", "done"}

\* lib.rs:39  process_and_emit_file has returned; nothing is waited for
SetupMayReturn == mpc = "returned"

\* lib.rs:44  Ok(())
SetupReturn ==
    /\ SetupMayReturn
    /\ mpc' = "done"
    /\ UNCHANGED <<input, res, args, calls, file_path, cleaned_path, cleaned,
                   absolute_path, env, wpc, wpath, slept, sinceCall, emits, log>>

\* app.rs:91  the spawned thread starts and goes to sleep
WorkerStart ==
    /\ wpc = "spawned"
    /\ wpc' = "sleeping"
    /\ slept' = 0
    /\ UNCHANGED <<input, res, args, mpc, calls, file_path, cleaned_path, cleaned,
                   absolute_path, env, wpath, sinceCall, emits, log>>

\* time passes, for the call and for the sleeping thread
Tick ==
    /\ \/ calls > 0 /\ sinceCall < DelayMs
       \/ wpc = "sleeping" /\ slept < DelayMs
    /\ sinceCall' = IF calls > 0 THEN Min(sinceCall + TickMs, DelayMs) ELSE sinceCall
    /\ slept' = IF wpc = "sleeping" THEN Min(slept + TickMs, DelayMs) ELSE slept
    /\ UNCHANGED <<input, res, args, mpc, calls, file_path, cleaned_path, cleaned,
                   absolute_path, env, wpc, wpath, emits, log>>

\* a variant that emits without sleeping
SleepOver_NoDelay(ms) == TRUE

\* app.rs:92  thread::sleep(Duration::from_millis(800)) has returned
SleepOver(ms) == ms >= DelayMs

\* a variant that sleeps again and emits again after a failure
AfterEmit_Retry(ok) == IF ok THEN "done" ELSE "spawned"

\* app.rs:93  Err is printed, Ok is printed, and the closure ends either way
AfterEmit(ok) == "done"

\* app.rs:93
EventName == "open-file"

\* app.rs:92  the thread wakes, emits once and ends
WorkerEmit ==
    /\ wpc = "sleeping"
    /\ SleepOver(slept)
    /\ \E ok \in BOOLEAN :
         /\ emits' = Append(emits, [event |-> EventName, payload |-> wpath, ok |-> ok])
         /\ log' = Append(log, IF ok THEN "sent" ELSE "send failed")
         /\ wpc' = AfterEmit(ok)
    /\ UNCHANGED <<input, res, args, mpc, calls, file_path, cleaned_path, cleaned,
                   absolute_path, env, wpath, slept, sinceCall>>

Init ==
    /\ input = <<>>
    /\ res = NoRes
    /\ args \in ArgVectors
    /\ mpc = "setup"
    /\ calls = 0
    /\ file_path = <<>>
    /\ cleaned_path = <<>>
    /\ cleaned = <<>>
    /\ absolute_path = <<>>
    /\ env = NoEnv
    /\ wpc = "none"
    /\ wpath = <<>>
    /\ slept = 0
    /\ sinceCall = 0
    /\ emits = <<>>
    /\ log = <<>>

Next == Setup \/ Dispatch \/ SetupReturn \/ WorkerStart \/ Tick \/ WorkerEmit

Spec == Init /\ [][Next]_vars

\* the threads are scheduled and time passes
Fairness ==
    /\ WF_vars(Setup)
    /\ WF_vars(Dispatch)
    /\ WF_vars(SetupReturn)
    /\ WF_vars(WorkerStart)
    /\ WF_vars(Tick)
    /\ WF_vars(WorkerEmit)

FairSpec == Spec /\ Fairness

\* process_and_emit_file called on its own, with any path
InitDispatch ==
    /\ input = <<>>
    /\ res = NoRes
    /\ args = <<>>
    /\ mpc = "dispatch"
    /\ calls = 0
    /\ file_path \in DispatchInputs
    /\ cleaned_path = <<>>
    /\ cleaned = <<>>
    /\ absolute_path = <<>>
    /\ env = NoEnv
    /\ wpc = "none"
    /\ wpath = <<>>
    /\ slept = 0
    /\ sinceCall = 0
    /\ emits = <<>>
    /\ log = <<>>

NextDispatch == Dispatch \/ WorkerStart \/ Tick \/ WorkerEmit

SpecDispatch == InitDispatch /\ [][NextDispatch]_vars

FairSpecDispatch ==
    /\ SpecDispatch
    /\ WF_vars(Dispatch)
    /\ WF_vars(WorkerStart)
    /\ WF_vars(Tick)
    /\ WF_vars(WorkerEmit)

\* ------------------------------------------------- process_and_emit_file
\* the input has a supported extension, as given and once cleaned
InputSupported ==
    is_supported_file(file_path) /\ is_supported_file(clean_file_path(file_path))
\* the input has no supported extension, neither as given nor once cleaned
InputUnsupported ==
    ~is_supported_file(file_path) /\ ~is_supported_file(clean_file_path(file_path))

\* C1 as claimed: a call with a path whose extension is supported spawns
\* the notification.
C1_SupportedInputNotifies ==
    (calls = 1 /\ InputSupported) => wpc # "none"

\* C1 (amended): a call whose resolved path (absolute_path, the cleaned
\* input after canonicalization) has a supported extension triggers exactly
\* one "open-file" notification, with that resolved path as payload, and
\* only once the 800 ms that follow the call have elapsed.
C1_ResolvedSupportedNotifiesOnce ==
    /\ [](/\ Len(emits) <= 1
          /\ emits # <<>> =>
                /\ emits[1].event = "open-file"
                /\ emits[1].payload = absolute_path
                /\ is_supported_file(absolute_path)
                /\ sinceCall >= DelayMs)
    /\ (calls = 1 /\ is_supported_file(absolute_path)) ~> (Len(emits) = 1)

C1_Witness ==
    /\ calls = 1
    /\ InputSupported
    /\ Len(emits) = 1
    /\ emits[1].payload = absolute_path
    /\ sinceCall >= DelayMs

\* C2 as claimed: a call with a path whose extension is not supported
\* never notifies, whatever path resolution answers.
C2_UnsupportedInputSilent ==
    InputUnsupported => (wpc = "none" /\ emits = <<>>)

\* C2 (amended): a call whose resolved path (absolute_path) has no
\* supported extension never notifies; the extension of the input itself
\* does not decide.
C2_UnsupportedResolvedSilent ==
    /\ calls = 0 => (wpc = "none" /\ emits = <<>>)
    /\ (calls = 1 /\ ~is_supported_file(absolute_path)) =>
          (wpc = "none" /\ emits = <<>>)

C2_Witness ==
    /\ calls = 1
    /\ ~is_supported_file(absolute_path)
    /\ env.c1.tag = "ok"
    /\ sinceCall >= DelayMs
    /\ emits = <<>>

\* ------------------------------------------------------------- the setup
Qualifies(i) == is_supported_file(clean_file_path(args[i]))
SomeQualifies == \E i \in 1..Len(args) : Qualifies(i)

\* C3 as claimed: when an argument qualifies, a notification for it is
\* under way once setup is over.
C3_QualifyingArgNotifies ==
    (mpc = "done" /\ SomeQualifies) => wpc # "none"

\* C3 (amended): when an argument qualifies, the first one in argument
\* order, cleaned, and no other is handed to process_and_emit_file; one
\* notification follows, after the delay, exactly when the resolved path of
\* that argument has a supported extension; when none qualifies the
\* function is never called and nothing is sent; at most one notification
\* per process start.
C3_FirstQualifyingArgDispatched ==
    /\ [](/\ calls <= 1
          /\ Len(emits) <= 1
          /\ calls = 1 =>
                \E i \in 1..Len(args) :
                    /\ Qualifies(i)
                    /\ \A j \in 1..(i - 1) : ~Qualifies(j)
                    /\ file_path = clean_file_path(args[i])
          /\ ~SomeQualifies =>
                (calls = 0 /\ mpc # "dispatch" /\ wpc = "none" /\ emits = <<>>)
          /\ (calls = 1 /\ ~is_supported_file(absolute_path)) => emits = <<>>
          /\ emits # <<>> =>
                (emits[1].payload = absolute_path /\ sinceCall >= DelayMs))
    /\ SomeQualifies ~>
          (calls = 1 /\ (is_supported_file(absolute_path) => Len(emits) = 1))

\* two arguments qualify and the notification carries the first
C3_Witness ==
    /\ Len(args) = 2
    /\ Qualifies(1) /\ Qualifies(2)
    /\ clean_file_path(args[1]) # clean_file_path(args[2])
    /\ file_path = clean_file_path(args[1])
    /\ Len(emits) = 1

\* ---------------------------------------------------------- the payload
\* C4 as claimed: every notification that is delivered carries an absolute
\* path.
C4_PayloadAbsolute ==
    \A i \in 1..Len(emits) : emits[i].ok => is_absolute(emits[i].payload)

\* C4 (amended): a notification carries an absolute path whenever the
\* cleaned argument is absolute, or canonicalize or current_dir gave a
\* valid UTF-8 path; otherwise (relative argument, no canonical path, no
\* working directory) it carries the cleaned relative path itself.
C4_PayloadAbsoluteUnlessNoCwd ==
    \A i \in 1..Len(emits) :
        LET p == emits[i].payload
        IN  /\ is_absolute(p) <=>
                 (is_absolute(cleaned) \/ env.c1.tag = "ok" \/ env.cwd.tag = "ok")
            /\ ~is_absolute(p) => p = cleaned

\* the payload is the working directory joined with a relative argument
C4_Witness ==
    /\ Len(emits) = 1
    /\ emits[1].ok
    /\ ~is_absolute(cleaned)
    /\ env.c1.tag = "err"
    /\ env.cwd.tag = "ok"
    /\ env.c2.tag = "err"
    /\ is_absolute(emits[1].payload)

\* ------------------------------------------------------ delivery failure
\* C8: a failed emit is logged and nothing more: at most one emit per call,
\* no second attempt, the worker ends normally and the main thread goes on.
C8_EmitFailureNotRetried ==
    /\ Len(emits) <= calls
    /\ \A i \in 1..Len(emits) :
          ~emits[i].ok =>
              /\ wpc = "done"
              /\ \E k \in 1..Len(log) : log[k] = "send failed"
              /\ mpc \in {"returned", "done"}
              /\ mpc = "returned" => ENABLED SetupReturn

C8_Witness ==
    /\ Len(emits) = 1
    /\ ~emits[1].ok
    /\ wpc = "done"
    /\ mpc = "done"

====
